---- MODULE Spec2Model ----
(***************************************************************************)
(* Model of ross/fluid_flow/fluid_flow_graphics.py: the six plot functions *)
(* that turn a FluidFlow object (the Flow State) into figure data.         *)
(*                                                                         *)
(* Number representation.  The source computes with floats; the model      *)
(* computes with integers in fixed units:                                  *)
(*   - pressures are counted in units of 0.01, so the shift constant 0.01  *)
(*     of the cylindrical plot is Epsilon = 1;                             *)
(*   - angles in radians are counted in units of pi/PiUnits;               *)
(*   - a value of np.linspace(start, stop, num) is kept as a numerator     *)
(*     over the common denominator linspace_div(num).                      *)
(* Arrays are functions on 0..n-1, as numpy indexes them.                  *)
(***************************************************************************)
EXTENDS Integers, Sequences, FiniteSets

VARIABLES fs,        \* the FluidFlow object handed to every plot function
          call,      \* the last call: function name and arguments
          raised,    \* TRUE iff the last call raised ValueError
          fig,       \* the figure the last call returned (NoFig if none)
          reads,     \* attributes of the FluidFlow object the last call read
          warnings,  \* warnings the last call emitted
          first      \* the caller's record of its first cylindrical plot

vars == <<fs, call, raised, fig, reads, warnings, first>>

(***************************************************************************)
(* Bounds of the model.                                                    *)
(***************************************************************************)
MaxNz == 2
MaxNtheta == 3
MaxNradius == 2
MaxPressure == 1

(***************************************************************************)
(* Program constants.                                                      *)
(***************************************************************************)
Epsilon == 1             \* 0.01, in pressure units of 0.01
PiUnits == 12            \* np.pi, in angle units of pi/12
HalfTurnDegrees == 180   \* the 180 of "180 / np.pi"
RotationOffset == 90     \* the 90 of "-90 - attitude_angle * 180 / np.pi"

(***************************************************************************)
(* numpy helpers, computed as numpy computes them.                         *)
(***************************************************************************)
Range(f) == {f[x] : x \in DOMAIN f}

\* np.amin / np.amax of a non-empty collection of values
amin(S) == CHOOSE x \in S : \A y \in S : x <= y
amax(S) == CHOOSE x \in S : \A y \in S : x >= y

\* np.linspace(start, stop, num): sample j is start + j*(stop-start)/div
\* with div = num-1 (num = 1 gives the single sample start).  The model keeps
\* the numerator start*div + j*(stop-start) over linspace_div(num).
linspace_div(num) == IF num > 1 THEN num - 1 ELSE 1
linspace(start, stop, num) ==
    [j \in 0..(num - 1) |-> start * linspace_div(num) + j * (stop - start)]

\* np.meshgrid(x, y): two arrays of shape (len(y), len(x)) with
\* X[i][j] = x[j] and Y[i][j] = y[i]
meshgrid_X(x, y) == [i \in DOMAIN y |-> [j \in DOMAIN x |-> x[j]]]
meshgrid_Y(x, y) == [i \in DOMAIN y |-> [j \in DOMAIN x |-> y[i]]]

\* np.zeros((rows, cols))
zeros(rows, cols) == [i \in 0..(rows - 1) |-> [j \in 0..(cols - 1) |-> 0]]

\* ndarray.T of a 2-D array of shape (rows, cols)
transpose(m, rows, cols) ==
    [t \in 0..(cols - 1) |-> [k \in 0..(rows - 1) |-> m[k][t]]]

\* ndarray.ravel(): row-major flattening of a (rows, cols) array
ravel(m, rows, cols) ==
    [n \in 0..(rows * cols - 1) |-> m[n \div cols][n % cols]]

\* all values of a 2-D array
Values2D(m) == UNION {Range(m[i]) : i \in DOMAIN m}

\* m[:, c]: column c of a 2-D array
column(m, c) == [k \in DOMAIN m |-> m[k][c]]

(***************************************************************************)
(* The Flow State.  The FluidFlow object is built by the solver, outside   *)
(* this file; the model draws it from a bounded family of solver outputs:  *)
(* a circular stator of radius radius_stator centred at the origin, a      *)
(* circular rotor of radius radius_rotor centred at the eccentricity point *)
(* (xi, yi) and lying inside the stator, angular samples a quarter turn    *)
(* apart, and pressure fields that are flat except for one peak or trough. *)
(* re is the stator's radial extent seen from the rotor centre (to first   *)
(* order in the eccentricity), ri the rotor's.                             *)
(* A pressure matrix that was not calculated holds zeros.                  *)
(***************************************************************************)
PressureValues == (0 - 1)..MaxPressure
AnalyticalLevels == {<<0, 0>>, <<0, 1>>, <<1, 0>>}
Bearings == {[radius_rotor |-> 4, radius_stator |-> 5]}
Eccentricities == {[xi |-> 0, yi |-> 0, attitude_angle |-> 0],
                   [xi |-> 1, yi |-> 0, attitude_angle |-> 2]}
QuarterTurn == PiUnits \div 2

\* cosine and sine of t quarter turns
cos_quarter(t) == CASE t % 4 = 0 -> 1 [] t % 4 = 2 -> 0 - 1 [] OTHER -> 0
sin_quarter(t) == CASE t % 4 = 1 -> 1 [] t % 4 = 3 -> 0 - 1 [] OTHER -> 0

\* a pressure field equal to lo everywhere except hi at cell (kp, tp)
PeakField(nz, ntheta, kp, tp, lo, hi) ==
    [k \in 0..(nz - 1) |->
        [t \in 0..(ntheta - 1) |-> IF k = kp /\ t = tp THEN hi ELSE lo]]

FluidFlow(nz, ntheta, nradius, b, e, p_num, p_ana, num_available, ana_available) ==
    [nz |-> nz,
     ntheta |-> ntheta,
     nradius |-> nradius,
     dtheta |-> QuarterTurn,
     radius_rotor |-> b.radius_rotor,
     radius_stator |-> b.radius_stator,
     attitude_angle |-> e.attitude_angle,
     z_list |-> [k \in 0..(nz - 1) |-> k],
     xi |-> e.xi,
     yi |-> e.yi,
     xre |-> [k \in 0..(nz - 1) |->
                [t \in 0..(ntheta - 1) |-> b.radius_stator * cos_quarter(t)]],
     yre |-> [k \in 0..(nz - 1) |->
                [t \in 0..(ntheta - 1) |-> b.radius_stator * sin_quarter(t)]],
     xri |-> [k \in 0..(nz - 1) |->
                [t \in 0..(ntheta - 1) |-> e.xi + b.radius_rotor * cos_quarter(t)]],
     yri |-> [k \in 0..(nz - 1) |->
                [t \in 0..(ntheta - 1) |-> e.yi + b.radius_rotor * sin_quarter(t)]],
     re |-> [k \in 0..(nz - 1) |->
               [t \in 0..(ntheta - 1) |->
                   b.radius_stator - e.xi * cos_quarter(t) - e.yi * sin_quarter(t)]],
     ri |-> [k \in 0..(nz - 1) |-> [t \in 0..(ntheta - 1) |-> b.radius_rotor]],
     gama |-> [k \in 0..(nz - 1) |-> [t \in 0..(ntheta - 1) |-> t * QuarterTurn]],
     p_mat_numerical |-> IF num_available THEN p_num ELSE zeros(nz, ntheta),
     p_mat_analytical |-> IF ana_available THEN p_ana ELSE zeros(nz, ntheta),
     numerical_pressure_matrix_available |-> num_available,
     analytical_pressure_matrix_available |-> ana_available]

\* grid sizes: the degenerate size 1 and the largest size of the model
GridSizes(max) == {1, max}

\* the peak or trough sits at angular sample tp of axial station tp % nz
FlowStates ==
    {FluidFlow(nz, ntheta, nradius, b, e,
               PeakField(nz, ntheta, tp % nz, tp, lo, hi),
               PeakField(nz, ntheta, tp % nz, tp, la[1], la[2]),
               num_available, ana_available) :
        nz \in GridSizes(MaxNz), ntheta \in GridSizes(MaxNtheta),
        nradius \in GridSizes(MaxNradius),
        b \in Bearings, e \in Eccentricities,
        tp \in 0..(MaxNtheta - 1),
        lo \in PressureValues, hi \in PressureValues, la \in AnalyticalLevels,
        num_available \in BOOLEAN, ana_available \in BOOLEAN}

(***************************************************************************)
(* What a call leaves behind.                                              *)
(***************************************************************************)
NoFig == [data |-> <<>>, rotation |-> 0]
NoCall == [name |-> "none", z |-> 0, theta |-> 0, from_numerical |-> TRUE]

AvailabilityFlags == {"numerical_pressure_matrix_available",
                      "analytical_pressure_matrix_available"}
PressureMatrices == {"p_mat_numerical", "p_mat_analytical"}

\* the caller has kept no cylindrical plot yet
NoFirst == [call |-> NoCall, fig |-> NoFig, between |-> FALSE]

\* "raise ValueError(Must calculate the pressure matrix ...)": the call stops
\* having read the two flags only, and hands back no figure
ValueError ==
    [raised |-> TRUE, fig |-> NoFig, reads |-> AvailabilityFlags,
     warnings |-> <<>>]

\* the guard every pressure plot starts with:
\* "not numerical_pressure_matrix_available and not analytical_..._available"
no_pressure_matrix_never(fluid_flow_object) == FALSE
no_pressure_matrix(fluid_flow_object) ==
    /\ ~fluid_flow_object.numerical_pressure_matrix_available
    /\ ~fluid_flow_object.analytical_pressure_matrix_available

\* the flags the guard reads: "and" stops at the first false operand
guard_reads(fluid_flow_object) ==
    {"numerical_pressure_matrix_available"}
    \cup (IF fluid_flow_object.numerical_pressure_matrix_available
          THEN {} ELSE {"analytical_pressure_matrix_available"})

\* go.Scatter(x=..., y=..., name=...)
Scatter(name, x, y) == [type |-> "scatter", name |-> name, x |-> x, y |-> y]

\* a Python list of one element
list1(v) == [j \in 0..0 |-> v]

(***************************************************************************)
(* plot_eccentricity(fluid_flow_object, z)                                 *)
(***************************************************************************)
plot_eccentricity(fluid_flow_object, z) ==
    [raised |-> FALSE,
     fig |-> [data |-> << Scatter("Stator", fluid_flow_object.xre[z],
                                  fluid_flow_object.yre[z]),
                          Scatter("Rotor", fluid_flow_object.xri[z],
                                  fluid_flow_object.yri[z]),
                          Scatter("Stator", list1(fluid_flow_object.xi),
                                  list1(fluid_flow_object.yi)),
                          Scatter("Rotor", list1(0), list1(0)) >>,
              rotation |-> 0],
     reads |-> {"xre", "yre", "xri", "yri", "xi", "yi"},
     warnings |-> <<>>]

(***************************************************************************)
(* plot_pressure_z(fluid_flow_object, theta)                               *)
(***************************************************************************)
\* "if numerical available: add_trace(...)": the numerical curve, if any
pressure_z_numerical(fluid_flow_object, theta) ==
    IF fluid_flow_object.numerical_pressure_matrix_available
    THEN << Scatter("Numerical pressure", fluid_flow_object.z_list,
                    column(fluid_flow_object.p_mat_numerical, theta)) >>
    ELSE <<>>

\* "if analytical available: add_trace(...)": the analytical curve, if any
pressure_z_analytical(fluid_flow_object, theta) ==
    IF fluid_flow_object.analytical_pressure_matrix_available
    THEN << Scatter("Analytical pressure", fluid_flow_object.z_list,
                    column(fluid_flow_object.p_mat_analytical, theta)) >>
    ELSE <<>>

\* the matrices read by two consecutive "if ... available" blocks
reads_each_available(fluid_flow_object) ==
    (IF fluid_flow_object.numerical_pressure_matrix_available
     THEN {"p_mat_numerical"} ELSE {})
    \cup (IF fluid_flow_object.analytical_pressure_matrix_available
          THEN {"p_mat_analytical"} ELSE {})

plot_pressure_z_elif(fluid_flow_object, theta) ==
    IF no_pressure_matrix(fluid_flow_object) THEN ValueError
    ELSE [raised |-> FALSE,
          fig |-> [data |-> IF fluid_flow_object.numerical_pressure_matrix_available
                            THEN pressure_z_numerical(fluid_flow_object, theta)
                            ELSE pressure_z_analytical(fluid_flow_object, theta),
                   rotation |-> 0],
          reads |-> AvailabilityFlags \cup {"z_list"}
                    \cup reads_each_available(fluid_flow_object),
          warnings |-> <<>>]

plot_pressure_z(fluid_flow_object, theta) ==
    IF no_pressure_matrix(fluid_flow_object) THEN ValueError
    ELSE [raised |-> FALSE,
          fig |-> [data |-> pressure_z_numerical(fluid_flow_object, theta)
                            \o pressure_z_analytical(fluid_flow_object, theta),
                   rotation |-> 0],
          reads |-> AvailabilityFlags \cup {"z_list"}
                    \cup reads_each_available(fluid_flow_object),
          warnings |-> <<>>]

(***************************************************************************)
(* plot_shape(fluid_flow_object, theta)                                    *)
(***************************************************************************)
\* a variant that starts with the guard of the pressure plots
plot_shape_guarded(fluid_flow_object, theta) ==
    IF no_pressure_matrix(fluid_flow_object) THEN ValueError
    ELSE [raised |-> FALSE,
          fig |-> [data |-> << Scatter("Stator", fluid_flow_object.z_list,
                                       column(fluid_flow_object.re, theta)),
                               Scatter("Rotor", fluid_flow_object.z_list,
                                       column(fluid_flow_object.ri, theta)) >>,
                   rotation |-> 0],
          reads |-> guard_reads(fluid_flow_object) \cup {"z_list", "re", "ri"},
          warnings |-> <<>>]

plot_shape(fluid_flow_object, theta) ==
    [raised |-> FALSE,
     fig |-> [data |-> << Scatter("Stator", fluid_flow_object.z_list,
                                  column(fluid_flow_object.re, theta)),
                          Scatter("Rotor", fluid_flow_object.z_list,
                                  column(fluid_flow_object.ri, theta)) >>,
              rotation |-> 0],
     reads |-> {"z_list", "re", "ri"},
     warnings |-> <<>>]

(***************************************************************************)
(* plot_pressure_theta(fluid_flow_object, z)                               *)
(***************************************************************************)
plot_pressure_theta_overlay(fluid_flow_object, z) ==
    IF no_pressure_matrix(fluid_flow_object) THEN ValueError
    ELSE [raised |-> FALSE,
          fig |-> [data |->
                     (IF fluid_flow_object.numerical_pressure_matrix_available
                      THEN << Scatter("Numerical pressure", fluid_flow_object.gama[z],
                                      fluid_flow_object.p_mat_numerical[z]) >>
                      ELSE <<>>)
                     \o (IF fluid_flow_object.analytical_pressure_matrix_available
                         THEN << Scatter("Analytical pressure",
                                         fluid_flow_object.gama[z],
                                         fluid_flow_object.p_mat_analytical[z]) >>
                         ELSE <<>>),
                   rotation |-> 0],
          reads |-> AvailabilityFlags \cup {"gama"}
                    \cup reads_each_available(fluid_flow_object),
          warnings |-> <<>>]

\* "if numerical available: ... elif analytical available: ..."
plot_pressure_theta(fluid_flow_object, z) ==
    IF no_pressure_matrix(fluid_flow_object) THEN ValueError
    ELSE IF fluid_flow_object.numerical_pressure_matrix_available
    THEN [raised |-> FALSE,
          fig |-> [data |-> << Scatter("Numerical pressure",
                                       fluid_flow_object.gama[z],
                                       fluid_flow_object.p_mat_numerical[z]) >>,
                   rotation |-> 0],
          reads |-> guard_reads(fluid_flow_object) \cup {"gama", "p_mat_numerical"},
          warnings |-> <<>>]
    ELSE IF fluid_flow_object.analytical_pressure_matrix_available
    THEN [raised |-> FALSE,
          fig |-> [data |-> << Scatter("Analytical pressure",
                                       fluid_flow_object.gama[z],
                                       fluid_flow_object.p_mat_analytical[z]) >>,
                   rotation |-> 0],
          reads |-> AvailabilityFlags \cup {"gama", "p_mat_analytical"},
          warnings |-> <<>>]
    ELSE [raised |-> FALSE, fig |-> NoFig, reads |-> AvailabilityFlags,
          warnings |-> <<>>]

(***************************************************************************)
(* plot_pressure_theta_cylindrical(fluid_flow_object, z, from_numerical)   *)
(***************************************************************************)
select_p_mat_strict(fluid_flow_object, from_numerical) ==
    IF from_numerical THEN "p_mat_numerical" ELSE "p_mat_analytical"

select_p_mat_numerical_first(fluid_flow_object, from_numerical) ==
    IF fluid_flow_object.numerical_pressure_matrix_available
    THEN "p_mat_numerical"
    ELSE "p_mat_analytical"

\* "if from_numerical: ... else: ...": the attribute p_mat is taken from
select_p_mat(fluid_flow_object, from_numerical) ==
    IF from_numerical
    THEN IF fluid_flow_object.numerical_pressure_matrix_available
         THEN "p_mat_numerical"
         ELSE "p_mat_analytical"
    ELSE IF fluid_flow_object.analytical_pressure_matrix_available
         THEN "p_mat_analytical"
         ELSE "p_mat_numerical"

\* r = np.linspace(radius_rotor, radius_stator, nradius), over r_div
cylindrical_r(fluid_flow_object) ==
    linspace(fluid_flow_object.radius_rotor, fluid_flow_object.radius_stator,
             fluid_flow_object.nradius)
cylindrical_r_div(fluid_flow_object) == linspace_div(fluid_flow_object.nradius)

\* theta = np.linspace(0.0, 2.0 * np.pi + dtheta / 2, ntheta), in radians,
\* over theta_div
cylindrical_theta_rad(fluid_flow_object) ==
    linspace(0, 2 * PiUnits + fluid_flow_object.dtheta \div 2,
             fluid_flow_object.ntheta)
cylindrical_theta_div(fluid_flow_object) == linspace_div(fluid_flow_object.ntheta)

\* theta *= 180 / np.pi
cylindrical_theta(fluid_flow_object) ==
    LET theta == cylindrical_theta_rad(fluid_flow_object)
    IN [i \in DOMAIN theta |-> (theta[i] * HalfTurnDegrees) \div PiUnits]

\* "r_matrix[i][j] < inner_radius" with inner_radius = np.sqrt(x*x + y*y):
\* for a radius num/div >= 0 this is num^2 < div^2 * (x*x + y*y)
inside_rotor_or_on_it(num, div, x, y) == num * num <= div * div * (x * x + y * y)
inside_rotor(num, div, x, y) == num * num < div * div * (x * x + y * y)

\* min_pressure = np.amin(pressure_along_theta)
min_pressure_is_zero(pressure_along_theta) == 0
min_pressure(pressure_along_theta) == amin(Range(pressure_along_theta))

\* the double loop that fills z_matrix = np.zeros((theta.size, r.size))
cylindrical_z_matrix_unshifted(fluid_flow_object, z, pressure_along_theta) ==
    LET r == cylindrical_r(fluid_flow_object)
        r_div == cylindrical_r_div(fluid_flow_object)
        min == min_pressure(pressure_along_theta)
    IN [i \in 0..(fluid_flow_object.ntheta - 1) |->
          [j \in 0..(fluid_flow_object.nradius - 1) |->
              IF inside_rotor(r[j], r_div, fluid_flow_object.xri[z][i],
                              fluid_flow_object.yri[z][i])
              THEN 0
              ELSE pressure_along_theta[i] - min]]

cylindrical_z_matrix(fluid_flow_object, z, pressure_along_theta) ==
    LET r == cylindrical_r(fluid_flow_object)
        r_div == cylindrical_r_div(fluid_flow_object)
        min == min_pressure(pressure_along_theta)
    IN [i \in 0..(fluid_flow_object.ntheta - 1) |->
          [j \in 0..(fluid_flow_object.nradius - 1) |->
              IF inside_rotor(r[j], r_div, fluid_flow_object.xri[z][i],
                              fluid_flow_object.yri[z][i])
              THEN 0
              ELSE pressure_along_theta[i] - min + Epsilon]]

\* go.Barpolar(r=r_matrix.ravel(), theta=theta_matrix.ravel(), ...)
Barpolar(fluid_flow_object, z_matrix) ==
    LET r == cylindrical_r(fluid_flow_object)
        theta == cylindrical_theta(fluid_flow_object)
        r_matrix == meshgrid_X(r, theta)
        theta_matrix == meshgrid_Y(r, theta)
    IN [type |-> "barpolar",
        name |-> "Pressure",
        r |-> ravel(r_matrix, fluid_flow_object.ntheta, fluid_flow_object.nradius),
        r_div |-> cylindrical_r_div(fluid_flow_object),
        theta |-> ravel(theta_matrix, fluid_flow_object.ntheta,
                        fluid_flow_object.nradius),
        theta_div |-> cylindrical_theta_div(fluid_flow_object),
        customdata |-> ravel(z_matrix, fluid_flow_object.ntheta,
                             fluid_flow_object.nradius),
        color |-> ravel(z_matrix, fluid_flow_object.ntheta,
                        fluid_flow_object.nradius),
        cmin |-> amin(Values2D(z_matrix)),
        cmax |-> amax(Values2D(z_matrix))]

\* rotation = -90 - attitude_angle * 180 / np.pi
angularaxis_rotation(fluid_flow_object) ==
    (0 - RotationOffset)
    - (fluid_flow_object.attitude_angle * HalfTurnDegrees) \div PiUnits

plot_pressure_theta_cylindrical(fluid_flow_object, z, from_numerical) ==
    IF no_pressure_matrix(fluid_flow_object) THEN ValueError
    ELSE LET p_mat_name == select_p_mat(fluid_flow_object, from_numerical)
             p_mat == fluid_flow_object[p_mat_name]
             pressure_along_theta == p_mat[z]
         IN [raised |-> FALSE,
             fig |-> [data |-> << Barpolar(fluid_flow_object,
                                    cylindrical_z_matrix(fluid_flow_object, z,
                                                         pressure_along_theta)) >>,
                      rotation |-> angularaxis_rotation(fluid_flow_object)],
             reads |-> guard_reads(fluid_flow_object)
                       \cup {IF from_numerical
                             THEN "numerical_pressure_matrix_available"
                             ELSE "analytical_pressure_matrix_available",
                             p_mat_name, "radius_rotor", "radius_stator",
                             "nradius", "dtheta", "ntheta", "xri", "yri",
                             "attitude_angle"},
             warnings |-> <<>>]

(***************************************************************************)
(* plot_pressure_surface(fluid_flow_object)                                *)
(***************************************************************************)
\* go.Surface(x=z, y=theta, z=p_mat.T, cmin=np.amin(p_mat.T), cmax=...)
\* with z, theta = np.meshgrid(z_list, gama[0])
Surface_untransposed(fluid_flow_object, p_mat) ==
    [type |-> "surface",
     name |-> "Pressure",
     x |-> meshgrid_X(fluid_flow_object.z_list, fluid_flow_object.gama[0]),
     y |-> meshgrid_Y(fluid_flow_object.z_list, fluid_flow_object.gama[0]),
     z |-> p_mat,
     cmin |-> amin(Values2D(p_mat)),
     cmax |-> amax(Values2D(p_mat))]

Surface(fluid_flow_object, p_mat) ==
    [type |-> "surface",
     name |-> "Pressure",
     x |-> meshgrid_X(fluid_flow_object.z_list, fluid_flow_object.gama[0]),
     y |-> meshgrid_Y(fluid_flow_object.z_list, fluid_flow_object.gama[0]),
     z |-> transpose(p_mat, fluid_flow_object.nz, fluid_flow_object.ntheta),
     cmin |-> amin(Values2D(transpose(p_mat, fluid_flow_object.nz,
                                      fluid_flow_object.ntheta))),
     cmax |-> amax(Values2D(transpose(p_mat, fluid_flow_object.nz,
                                      fluid_flow_object.ntheta)))]

plot_pressure_surface(fluid_flow_object) ==
    IF no_pressure_matrix(fluid_flow_object) THEN ValueError
    ELSE [raised |-> FALSE,
          fig |-> [data |->
                     (IF fluid_flow_object.numerical_pressure_matrix_available
                      THEN << Surface(fluid_flow_object,
                                      fluid_flow_object.p_mat_numerical) >>
                      ELSE <<>>)
                     \o (IF fluid_flow_object.analytical_pressure_matrix_available
                         THEN << Surface(fluid_flow_object,
                                         fluid_flow_object.p_mat_analytical) >>
                         ELSE <<>>),
                   rotation |-> 0],
          reads |-> AvailabilityFlags \cup {"z_list", "gama"}
                    \cup reads_each_available(fluid_flow_object),
          warnings |-> <<>>]

(***************************************************************************)
(* The state machine: a caller holding one FluidFlow object calls the plot *)
(* functions in any order, with any valid index.                           *)
(***************************************************************************)
Init ==
    /\ fs \in FlowStates
    /\ call = NoCall
    /\ raised = FALSE
    /\ fig = NoFig
    /\ reads = {}
    /\ warnings = <<>>
    /\ first = NoFirst

\* the outcome of a call becomes the observable state; the object is left alone
Returns(result) ==
    /\ raised' = result.raised
    /\ fig' = result.fig
    /\ reads' = result.reads
    /\ warnings' = result.warnings

call_plot_eccentricity ==
    \E z \in 0..(fs.nz - 1) :
        /\ Returns(plot_eccentricity(fs, z))
        /\ call' = [name |-> "plot_eccentricity", z |-> z, theta |-> 0,
                    from_numerical |-> TRUE]
        /\ UNCHANGED fs

call_plot_pressure_z ==
    \E theta \in 0..(fs.ntheta - 1) :
        /\ Returns(plot_pressure_z(fs, theta))
        /\ call' = [name |-> "plot_pressure_z", z |-> 0, theta |-> theta,
                    from_numerical |-> TRUE]
        /\ UNCHANGED fs

call_plot_shape ==
    \E theta \in 0..(fs.ntheta - 1) :
        /\ Returns(plot_shape(fs, theta))
        /\ call' = [name |-> "plot_shape", z |-> 0, theta |-> theta,
                    from_numerical |-> TRUE]
        /\ UNCHANGED fs

call_plot_pressure_theta ==
    \E z \in 0..(fs.nz - 1) :
        /\ Returns(plot_pressure_theta(fs, z))
        /\ call' = [name |-> "plot_pressure_theta", z |-> z, theta |-> 0,
                    from_numerical |-> TRUE]
        /\ UNCHANGED fs

\* a variant that shifts the slice in place ("pressure_along_theta -=
\* min_pressure" on the view p_mat[z, :])
call_plot_pressure_theta_cylindrical_in_place ==
    \E z \in 0..(fs.nz - 1), from_numerical \in BOOLEAN :
        /\ Returns(plot_pressure_theta_cylindrical(fs, z, from_numerical))
        /\ call' = [name |-> "plot_pressure_theta_cylindrical", z |-> z,
                    theta |-> 0, from_numerical |-> from_numerical]
        /\ fs' = IF no_pressure_matrix(fs) THEN fs
                 ELSE [fs EXCEPT ![select_p_mat(fs, from_numerical)][z] =
                          [i \in DOMAIN @ |-> @[i] - min_pressure(@)]]

\* a variant that writes the shifted value of every sample that has an
\* unmasked cell back into the slice (the view p_mat[z, :])
call_plot_pressure_theta_cylindrical_writes_back ==
    \E z \in 0..(fs.nz - 1), from_numerical \in BOOLEAN :
        /\ Returns(plot_pressure_theta_cylindrical(fs, z, from_numerical))
        /\ call' = [name |-> "plot_pressure_theta_cylindrical", z |-> z,
                    theta |-> 0, from_numerical |-> from_numerical]
        /\ fs' = IF no_pressure_matrix(fs) THEN fs
                 ELSE [fs EXCEPT ![select_p_mat(fs, from_numerical)][z] =
                          [i \in DOMAIN @ |->
                              IF \E j \in 0..(fs.nradius - 1) :
                                    ~inside_rotor(cylindrical_r(fs)[j],
                                                  cylindrical_r_div(fs),
                                                  fs.xri[z][i], fs.yri[z][i])
                              THEN @[i] - min_pressure(@) + Epsilon
                              ELSE @[i]]]

call_plot_pressure_theta_cylindrical ==
    \E z \in 0..(fs.nz - 1), from_numerical \in BOOLEAN :
        /\ Returns(plot_pressure_theta_cylindrical(fs, z, from_numerical))
        /\ call' = [name |-> "plot_pressure_theta_cylindrical", z |-> z,
                    theta |-> 0, from_numerical |-> from_numerical]
        /\ UNCHANGED fs

call_plot_pressure_surface ==
    /\ Returns(plot_pressure_surface(fs))
    /\ call' = [name |-> "plot_pressure_surface", z |-> 0, theta |-> 0,
                from_numerical |-> TRUE]
    /\ UNCHANGED fs

\* any call of a plot function, by a caller that keeps no figure
Next ==
    \/ call_plot_eccentricity /\ UNCHANGED first
    \/ call_plot_pressure_z /\ UNCHANGED first
    \/ call_plot_shape /\ UNCHANGED first
    \/ call_plot_pressure_theta /\ UNCHANGED first
    \/ call_plot_pressure_theta_cylindrical /\ UNCHANGED first
    \/ call_plot_pressure_surface /\ UNCHANGED first

Spec == Init /\ [][Next]_vars

(***************************************************************************)
(* The same calls, seen by a caller that keeps the figure of its first     *)
(* successful cylindrical plot to compare later ones with, and notes       *)
(* whether it made any other call since.  The FluidFlow objects are those  *)
(* of FlowStates with a numerical field that is 0 off its peak or trough   *)
(* and an analytical field that is 1 off its trough of 0.                  *)
(***************************************************************************)
RepeatFlowStates ==
    {FluidFlow(nz, ntheta, nradius, b, e,
               PeakField(nz, ntheta, tp % nz, tp, 0, hi),
               PeakField(nz, ntheta, tp % nz, tp, 1, 0),
               num_available, ana_available) :
        nz \in GridSizes(MaxNz), ntheta \in GridSizes(MaxNtheta),
        nradius \in GridSizes(MaxNradius),
        b \in Bearings, e \in Eccentricities,
        tp \in 0..(MaxNtheta - 1), hi \in PressureValues,
        num_available \in BOOLEAN, ana_available \in BOOLEAN}

InitRepeat ==
    /\ fs \in RepeatFlowStates
    /\ call = NoCall
    /\ raised = FALSE
    /\ fig = NoFig
    /\ reads = {}
    /\ warnings = <<>>
    /\ first = NoFirst

SameArguments(c, d) ==
    c.name = d.name /\ c.z = d.z /\ c.from_numerical = d.from_numerical

Remember ==
    first' = IF first.call.name = "none"
             THEN IF call'.name = "plot_pressure_theta_cylindrical" /\ ~raised'
                  THEN [call |-> call', fig |-> fig', between |-> FALSE]
                  ELSE first
             ELSE IF SameArguments(call', first.call)
                  THEN first
                  ELSE [first EXCEPT !.between = TRUE]

NextRepeat ==
    \/ call_plot_eccentricity /\ Remember
    \/ call_plot_pressure_z /\ Remember
    \/ call_plot_shape /\ Remember
    \/ call_plot_pressure_theta /\ Remember
    \/ call_plot_pressure_theta_cylindrical /\ Remember
    \/ call_plot_pressure_surface /\ Remember

SpecRepeat == InitRepeat /\ [][NextRepeat]_vars

(***************************************************************************)
(* Vocabulary of the properties.                                           *)
(***************************************************************************)
PressureCalls == {"plot_pressure_z", "plot_pressure_theta",
                  "plot_pressure_theta_cylindrical", "plot_pressure_surface"}

NumericalAvailable == fs.numerical_pressure_matrix_available
AnalyticalAvailable == fs.analytical_pressure_matrix_available
NoneAvailable == ~NumericalAvailable /\ ~AnalyticalAvailable
OneAvailable == NumericalAvailable # AnalyticalAvailable
AvailableCount ==
    (IF NumericalAvailable THEN 1 ELSE 0) + (IF AnalyticalAvailable THEN 1 ELSE 0)

\* with exactly one source available: its name, and the name of the other
OnlyAvailable == IF NumericalAvailable THEN "p_mat_numerical" ELSE "p_mat_analytical"
Unavailable == IF NumericalAvailable THEN "p_mat_analytical" ELSE "p_mat_numerical"

\* in a cylindrical call: the source from_numerical asks for, and the other
Requested == IF call.from_numerical THEN "p_mat_numerical" ELSE "p_mat_analytical"
NotRequested == IF call.from_numerical THEN "p_mat_analytical" ELSE "p_mat_numerical"
IsAvailable(name) ==
    IF name = "p_mat_numerical" THEN NumericalAvailable ELSE AnalyticalAvailable

Cylindrical == call.name = "plot_pressure_theta_cylindrical" /\ ~raised

\* the cell (i, j) of the flattened mesh of a cylindrical figure
Cell(i, j) == i * fs.nradius + j
CellValue(i, j) == fig.data[1].customdata[Cell(i, j)]

\* r[j] < inner_radius(i), read off the figure's radii and the rotor
\* coordinates: (r/div)^2 < xri^2 + yri^2
Masked(i, j) ==
    fig.data[1].r[Cell(i, j)] * fig.data[1].r[Cell(i, j)]
        < fig.data[1].r_div * fig.data[1].r_div
          * (fs.xri[call.z][i] * fs.xri[call.z][i]
             + fs.yri[call.z][i] * fs.yri[call.z][i])

AngularSamples == 0..(fs.ntheta - 1)
RadialSamples == 0..(fs.nradius - 1)
AxialSamples == 0..(fs.nz - 1)

\* the pressure slice of source name at the axial index of the call
Slice(name) == fs[name][call.z]
SliceMin(name) == CHOOSE m \in Range(Slice(name)) : \A v \in Range(Slice(name)) : m <= v

\* the cells of a cylindrical figure are those of the slice of source name:
\* every cell is 0 or the shifted pressure of its angular sample
MeshFromSlice(name) ==
    /\ DOMAIN fig.data[1].customdata = 0..(fs.ntheta * fs.nradius - 1)
    /\ \A i \in AngularSamples, j \in RadialSamples :
          CellValue(i, j) = IF Masked(i, j) THEN 0
                            ELSE Slice(name)[i] - SliceMin(name) + Epsilon

\* a curve or surface built from the values a function of two indices gives
ColumnOf(name, theta) == [k \in AxialSamples |-> fs[name][k][theta]]
IsTransposeOf(grid, name) ==
    /\ DOMAIN grid = AngularSamples
    /\ \A t \in AngularSamples :
          /\ DOMAIN grid[t] = AxialSamples
          /\ \A k \in AxialSamples : grid[t][k] = fs[name][k][t]

(***************************************************************************)
(* C1.  When neither pressure matrix is available, every pressure plot     *)
(* (plot_pressure_z, plot_pressure_theta, plot_pressure_theta_cylindrical, *)
(* plot_pressure_surface) raises, returns no figure and has read no        *)
(* pressure matrix (nor anything but the two availability flags).          *)
(***************************************************************************)
C1_MissingPressureRaises ==
    (call.name \in PressureCalls /\ NoneAvailable)
        => /\ raised
           /\ fig = NoFig
           /\ reads \cap PressureMatrices = {}
           /\ reads \subseteq AvailabilityFlags

C1_Witness ==
    /\ call.name = "plot_pressure_theta_cylindrical"
    /\ NoneAvailable
    /\ raised

(***************************************************************************)
(* C2.  When exactly one pressure matrix is available, every pressure plot *)
(* returns a figure without raising, reads the available matrix, never     *)
(* reads the other one, and the one trace of the figure carries the data   *)
(* of the available matrix (for the cylindrical plot: whatever the value   *)
(* of from_numerical).                                                     *)
(***************************************************************************)
C2_SingleSourceUsed ==
    (call.name \in PressureCalls /\ OneAvailable)
        => /\ ~raised
           /\ OnlyAvailable \in reads
           /\ Unavailable \notin reads
           /\ Len(fig.data) = 1
           /\ call.name = "plot_pressure_z"
                 => fig.data[1].y = ColumnOf(OnlyAvailable, call.theta)
           /\ call.name = "plot_pressure_theta"
                 => fig.data[1].y = Slice(OnlyAvailable)
           /\ call.name = "plot_pressure_theta_cylindrical"
                 => MeshFromSlice(OnlyAvailable)
           /\ call.name = "plot_pressure_surface"
                 => IsTransposeOf(fig.data[1].z, OnlyAvailable)

C2_Witness ==
    /\ Cylindrical
    /\ OneAvailable
    /\ AnalyticalAvailable
    /\ call.from_numerical
    /\ \E i \in AngularSamples, j \in RadialSamples : CellValue(i, j) > Epsilon

(***************************************************************************)
(* C3.  In the cylindrical plot, a fallback warning is emitted exactly     *)
(* when the source from_numerical asks for is unavailable and the other    *)
(* one is used instead.                                                    *)
(***************************************************************************)
C3_FallbackWarns ==
    Cylindrical
        => /\ (~IsAvailable(Requested) /\ IsAvailable(NotRequested))
                 => (NotRequested \in reads /\ warnings # <<>>)
           /\ IsAvailable(Requested) => warnings = <<>>

(***************************************************************************)
(* C4.  In the cylindrical plot, when the source from_numerical asks for   *)
(* is available it is the one used, also when both are available: the      *)
(* call reads that matrix and not the other, and the mesh values are those *)
(* of its slice at z.                                                      *)
(***************************************************************************)
C4_PreferredSourceUsed ==
    (Cylindrical /\ IsAvailable(Requested))
        => /\ Requested \in reads
           /\ NotRequested \notin reads
           /\ MeshFromSlice(Requested)

C4_Witness ==
    /\ Cylindrical
    /\ NumericalAvailable
    /\ AnalyticalAvailable
    /\ ~call.from_numerical
    /\ \E i \in AngularSamples :
          Slice("p_mat_numerical")[i] - SliceMin("p_mat_numerical")
              # Slice("p_mat_analytical")[i] - SliceMin("p_mat_analytical")

(***************************************************************************)
(* C5.  In the cylindrical plot at axial index z, with the pressure slice  *)
(* of the source the call read: a cell whose radius r[j] is below          *)
(* inner_radius(i) = sqrt(xri[z][i]^2 + yri[z][i]^2) holds exactly 0, and  *)
(* any other cell holds exactly pressure[i] - min_pressure + 0.01, which   *)
(* is at least 0.01.                                                       *)
(***************************************************************************)
SourceRead == CHOOSE name \in PressureMatrices : name \in reads

C5_MaskAndShift ==
    Cylindrical
        => /\ reads \cap PressureMatrices # {}
           /\ DOMAIN fig.data[1].customdata = 0..(fs.ntheta * fs.nradius - 1)
           /\ \A i \in AngularSamples, j \in RadialSamples :
                 IF Masked(i, j)
                 THEN CellValue(i, j) = 0
                 ELSE /\ CellValue(i, j)
                            = Slice(SourceRead)[i] - SliceMin(SourceRead) + Epsilon
                      /\ CellValue(i, j) >= Epsilon

C5_Witness ==
    /\ Cylindrical
    /\ \E i \in AngularSamples, j \in RadialSamples :
          Masked(i, j) /\ CellValue(i, j) = 0
    /\ \E i \in AngularSamples, j \in RadialSamples :
          ~Masked(i, j) /\ CellValue(i, j) > Epsilon
    /\ \E i \in AngularSamples, j \in RadialSamples :
          /\ ~Masked(i, j)
          /\ fig.data[1].r[Cell(i, j)] * fig.data[1].r[Cell(i, j)]
                = fig.data[1].r_div * fig.data[1].r_div
                  * (fs.xri[call.z][i] * fs.xri[call.z][i]
                     + fs.yri[call.z][i] * fs.yri[call.z][i])

(***************************************************************************)
(* C6.  As claimed: after a cylindrical plot the minimum over the unmasked *)
(* cells of the mesh is exactly 0.01 (read here in its weakest form: if    *)
(* there is an unmasked cell at all).                                      *)
(***************************************************************************)
UnmaskedValues ==
    {CellValue(i, j) : <<i, j>> \in {c \in AngularSamples \X RadialSamples :
                                        ~Masked(c[1], c[2])}}

C6_MinUnmaskedIsEpsilon ==
    (Cylindrical /\ UnmaskedValues # {})
        => (\A v \in UnmaskedValues : v >= Epsilon) /\ Epsilon \in UnmaskedValues

(***************************************************************************)
(* C6, amended.  After a cylindrical plot every unmasked cell holds at     *)
(* least 0.01, and the minimum over the unmasked cells is exactly 0.01     *)
(* whenever some angular sample where the slice is at its minimum has an   *)
(* unmasked cell; that is so in particular when nradius >= 2 and every     *)
(* rotor point of the slice lies within radius_stator, the last radial     *)
(* sample.                                                                 *)
(***************************************************************************)
MinimumSampleUnmasked ==
    \E i \in AngularSamples, j \in RadialSamples :
        Slice(SourceRead)[i] = SliceMin(SourceRead) /\ ~Masked(i, j)

RotorWithinStator ==
    \A i \in AngularSamples :
        fs.xri[call.z][i] * fs.xri[call.z][i] + fs.yri[call.z][i] * fs.yri[call.z][i]
            <= fs.radius_stator * fs.radius_stator

C6_MinUnmaskedIsEpsilonIfMinimumUnmasked ==
    Cylindrical
        => /\ \A v \in UnmaskedValues : v >= Epsilon
           /\ MinimumSampleUnmasked => Epsilon \in UnmaskedValues
           /\ (fs.nradius >= 2 /\ RotorWithinStator) => Epsilon \in UnmaskedValues

C6_Witness ==
    /\ Cylindrical
    /\ MinimumSampleUnmasked
    /\ SliceMin(SourceRead) # 0
    /\ \E i \in AngularSamples, j \in RadialSamples : Masked(i, j)
    /\ \E v \in UnmaskedValues : v > Epsilon

(***************************************************************************)
(* C7.  plot_pressure_z at angular index theta returns one curve per       *)
(* available pressure matrix, numerical first: each pairs z_list with the  *)
(* column theta of its own matrix.                                         *)
(***************************************************************************)
C7_AxialCutCurves ==
    (call.name = "plot_pressure_z" /\ ~raised)
        => /\ Len(fig.data) = AvailableCount
           /\ \A n \in 1..Len(fig.data) : fig.data[n].x = fs.z_list
           /\ NumericalAvailable
                 => /\ fig.data[1].name = "Numerical pressure"
                    /\ fig.data[1].y = ColumnOf("p_mat_numerical", call.theta)
           /\ AnalyticalAvailable
                 => /\ fig.data[Len(fig.data)].name = "Analytical pressure"
                    /\ fig.data[Len(fig.data)].y
                          = ColumnOf("p_mat_analytical", call.theta)

C7_Witness ==
    /\ call.name = "plot_pressure_z"
    /\ ~raised
    /\ Len(fig.data) = 2
    /\ fig.data[1].y # fig.data[2].y
    /\ fs.nz > 1
    /\ fig.data[1].y[0] # fig.data[1].y[1]

C9_SurfaceTransposes ==
    (call.name = "plot_pressure_surface" /\ ~raised)
        => /\ Len(fig.data) = AvailableCount
           /\ NumericalAvailable
                 => IsTransposeOf(fig.data[1].z, "p_mat_numerical")
           /\ AnalyticalAvailable
                 => IsTransposeOf(fig.data[Len(fig.data)].z, "p_mat_analytical")

C9_Witness ==
    /\ call.name = "plot_pressure_surface"
    /\ Len(fig.data) = 2
    /\ fig.data[1].z # fig.data[2].z
    /\ fs.nz # fs.ntheta
    /\ \E k \in AxialSamples, t \in AngularSamples :
          fs.p_mat_numerical[k][t] # fs.p_mat_numerical[0][0]

(***************************************************************************)
(* C10.  No call changes the FluidFlow object: whichever plot function is  *)
(* called, and whether it returns or raises, every attribute keeps its     *)
(* value.                                                                  *)
(***************************************************************************)
C10_FlowStateReadOnly == [][fs' = fs]_vars

C10_Witness ==
    /\ call.name = "plot_pressure_theta_cylindrical"
    /\ ~raised
    /\ SliceMin(SourceRead) # 0
    /\ reads # {}

AngularStopDegrees ==
    ((2 * PiUnits + fs.dtheta \div 2) * HalfTurnDegrees) \div PiUnits

\* the radius and the angle of mesh cell (i, j), as numerators over the
\* figure's r_div and theta_div
CellRadius(i, j) == fig.data[1].r[Cell(i, j)]
CellAngle(i, j) == fig.data[1].theta[Cell(i, j)]

RadialSamplesEvenInClosedInterval ==
    /\ DOMAIN fig.data[1].r = 0..(fs.ntheta * fs.nradius - 1)
    /\ \A i \in AngularSamples, j \in RadialSamples :
          /\ CellRadius(i, j) >= fs.radius_rotor * fig.data[1].r_div
          /\ CellRadius(i, j) <= fs.radius_stator * fig.data[1].r_div
          /\ CellRadius(i, j) = CellRadius(0, j)
          /\ j = 0 => CellRadius(i, j) = fs.radius_rotor * fig.data[1].r_div
          /\ j > 0 => CellRadius(i, j) - CellRadius(i, j - 1)
                         = CellRadius(i, 1) - CellRadius(i, 0)
          /\ (j = fs.nradius - 1 /\ j > 0)
                => CellRadius(i, j) = fs.radius_stator * fig.data[1].r_div

AngularSamplesEven ==
    /\ DOMAIN fig.data[1].theta = 0..(fs.ntheta * fs.nradius - 1)
    /\ \A i \in AngularSamples, j \in RadialSamples :
          /\ CellAngle(i, j) = CellAngle(i, 0)
          /\ i = 0 => CellAngle(i, j) = 0
          /\ i > 0 => CellAngle(i, j) - CellAngle(i - 1, j)
                         = CellAngle(1, j) - CellAngle(0, j)

C12_AngularSamplesBelowStop ==
    Cylindrical
        => /\ RadialSamplesEvenInClosedInterval
           /\ AngularSamplesEven
           /\ \A i \in AngularSamples, j \in RadialSamples :
                 CellAngle(i, j) < AngularStopDegrees * fig.data[1].theta_div

(***************************************************************************)
(* C13.  plot_eccentricity and plot_shape read neither the pressure        *)
(* matrices nor the availability flags and never raise, also when no       *)
(* pressure matrix is available.  plot_eccentricity returns the curves     *)
(* (xre[z], yre[z]) and (xri[z], yri[z]) and the points (xi, yi) and       *)
(* (0, 0); plot_shape returns (z_list, re[:, theta]) and                   *)
(* (z_list, ri[:, theta]).                                                 *)
(***************************************************************************)
GeometryCalls == {"plot_eccentricity", "plot_shape"}

C13_GeometryPlotsIgnorePressure ==
    /\ call.name \in GeometryCalls
          => /\ ~raised
             /\ reads \cap (PressureMatrices \cup AvailabilityFlags) = {}
    /\ call.name = "plot_eccentricity"
          => /\ Len(fig.data) = 4
             /\ fig.data[1].x = fs.xre[call.z] /\ fig.data[1].y = fs.yre[call.z]
             /\ fig.data[2].x = fs.xri[call.z] /\ fig.data[2].y = fs.yri[call.z]
             /\ fig.data[3].x = [n \in 0..0 |-> fs.xi]
             /\ fig.data[3].y = [n \in 0..0 |-> fs.yi]
             /\ fig.data[4].x = [n \in 0..0 |-> 0]
             /\ fig.data[4].y = [n \in 0..0 |-> 0]
    /\ call.name = "plot_shape"
          => /\ Len(fig.data) = 2
             /\ fig.data[1].x = fs.z_list
             /\ fig.data[1].y = ColumnOf("re", call.theta)
             /\ fig.data[2].x = fs.z_list
             /\ fig.data[2].y = ColumnOf("ri", call.theta)

C13_Witness ==
    /\ call.name = "plot_shape"
    /\ NoneAvailable
    /\ ~raised
    /\ Len(fig.data) = 2
    /\ fs.nz > 1
    /\ fig.data[1].y # ColumnOf("re", 0)
    /\ fig.data[1].y # fig.data[2].y

====
